---- MODULE Spec2Model ----
(***************************************************************************)
(* Package cfg of go-snuglibs: the configuration file parser (Load), the   *)
(* section extractor (ReadFile), the in-memory Store with its accessors    *)
(* and its lock, and the file writer (SetFile).                            *)
(*                                                                         *)
(* A string is a sequence of one-character strings, a file is the sequence *)
(* of its lines (bufio.Scanner's view of it: the text of each line without *)
(* its terminator).  A map is a function whose domain is the set of keys   *)
(* present.                                                                *)
(***************************************************************************)
EXTENDS Integers, Sequences, FiniteSets, TLC

VARIABLES
    file,       \* the lines of the configuration file on disk
    cfgStore,   \* Store.cfgStore: section -> key -> list of values
    ret,        \* the last call that returned: operation, arguments, results
    pc,         \* where the Set call in progress stands (SetFile's steps)
    call,       \* the Set call in progress: its arguments and locals (in
                \* SpecLoad: the key and values the file was written with)
    tmpfile,    \* the lines of SetFile's temporary file (none once removed)
    handles,    \* the files the last Set call has opened or created
    obs,        \* what a reader of the file has read during the Set call
    nset,       \* the number of Set calls made
    mutex,      \* Store.mutex: the writer that has it, the readers inside
    procs       \* the calls goroutines have under way on the Store at once

vars == <<file, cfgStore, ret, pc, call, tmpfile, handles, obs, nset, mutex, procs>>

----------------------------------------------------------------------------
(* Bounds of the model. *)

\* Set calls made in one behaviour of Spec and SpecSet.
MaxSets == 2

\* Set calls made in one behaviour of SpecIO, where each call takes a step
\* per file operation and may fail at each.
MaxIOSets == 1

----------------------------------------------------------------------------
(* Characters and strings. *)

NL == "\n"
BSL == "\\"

UpperCase == <<"A", "B", "J", "K", "S", "T">>
LowerCase == <<"a", "b", "j", "k", "s", "t">>

\* unicode.ToLower on the letters of the model's alphabet
ToLowerCh(c) ==
    IF \E i \in 1..Len(UpperCase) : UpperCase[i] = c
    THEN LowerCase[CHOOSE i \in 1..Len(UpperCase) : UpperCase[i] = c]
    ELSE c

\* strings.ToLower
ToLower(s) == [i \in 1..Len(s) |-> ToLowerCh(s[i])]

IsSpace(c) == c \in {" ", "\t", NL, "\r"}

\* strings.TrimSpace
TrimSpace(s) ==
    LET idx == {i \in 1..Len(s) : ~IsSpace(s[i])}
    IN  IF idx = {} THEN <<>>
        ELSE SubSeq(s, CHOOSE i \in idx : \A j \in idx : i <= j,
                       CHOOSE i \in idx : \A j \in idx : i >= j)

\* strings.HasPrefix
HasPrefix(s, prefix) ==
    /\ Len(prefix) <= Len(s)
    /\ SubSeq(s, 1, Len(prefix)) = prefix

\* strings.ContainsAny
ContainsAny(s, chars) == \E i \in 1..Len(s) : s[i] \in chars

\* strings.Split(s, sep)[0]: the text before the first sep, all of s without one
SplitFirst(s, sep) ==
    LET idx == {i \in 1..Len(s) : s[i] = sep}
    IN  IF idx = {} THEN s
        ELSE SubSeq(s, 1, (CHOOSE i \in idx : \A j \in idx : i <= j) - 1)

\* strings.Replace(val, "\\", "", -1)
RECURSIVE StripEscapes(_)
StripEscapes(val) ==
    IF val = <<>> THEN <<>>
    ELSE IF Head(val) = BSL THEN StripEscapes(Tail(val))
         ELSE <<Head(val)>> \o StripEscapes(Tail(val))

----------------------------------------------------------------------------
(* Maps. *)

EmptyMap == <<>>

HasKey(m, k) == k \in DOMAIN m

MapPut(m, k, v) == [x \in (DOMAIN m) \cup {k} |-> IF x = k THEN v ELSE m[x]]

----------------------------------------------------------------------------
(* The mode flags of the scanners: a flag word is the set of its bits. *)

cfg_HEADER == 1
cfg_KEY == 2
cfg_COMMA == 4
cfg_ESCAPE == 8

----------------------------------------------------------------------------
(* Load: the full-file parser.  The scanner state p holds Load's locals;   *)
(* ctl says how the step left the loops: "char" (next character), "line"   *)
(* (continue scanLoop) or "ret" (return).  err is "nil", "syntax" (cfgErr, *)
(* with errline) or "panic" (assignment to an entry in a nil map).         *)

LoadStart ==
    [flag |-> {}, line |-> 0, last |-> 0, buf |-> <<>>, section |-> <<>>,
     key |-> <<>>, val |-> <<>>, store |-> EmptyMap, ctl |-> "line",
     err |-> "nil", errline |-> 0]

\* cfgErr with a fault: the lines are counted from 0
cfgErr_FromZero(p, line) ==
    [p EXCEPT !.ctl = "ret", !.err = "syntax", !.errline = line - 1]

cfgErr(p, line) == [p EXCEPT !.ctl = "ret", !.err = "syntax", !.errline = line]

\* setKey: the buffer, trimmed and lower-cased, becomes the key
setKey(p) == [p EXCEPT !.key = ToLower(TrimSpace(p.buf)), !.buf = <<>>]

\* addVal with a fault: the value is put in front of the list
addVal_InFront(p) ==
    [p EXCEPT !.val = <<TrimSpace(p.buf)>> \o p.val, !.buf = <<>>]

\* addVal: the buffer, trimmed, is appended to the value list
addVal(p) == [p EXCEPT !.val = Append(p.val, TrimSpace(p.buf)), !.buf = <<>>]

\* the default branch of the character switch (also reached from '\\')
LoadDefault(p, ch, i, l) ==
    IF Len(p.buf) = 0 /\ ch \in {" ", "\t"}
    THEN [p EXCEPT !.ctl = "char"]
    ELSE LET q == [p EXCEPT !.flag = @ \ {cfg_COMMA}]
         IN  IF i = l /\ Len(q.buf) # 0
             THEN cfgErr(q, q.line)
             ELSE [q EXCEPT !.buf = Append(@, ch), !.ctl = "char"]

\* one character of a line: txt is the line with its "\n", i counts from 1
LoadChar(p, txt, i) ==
    LET ch == txt[i]
        l == Len(txt)
    IN  IF cfg_ESCAPE \in p.flag
        THEN IF i = l /\ Len(p.buf) # 0
             THEN cfgErr(p, p.line)
             ELSE [p EXCEPT !.buf = Append(@, ch), !.flag = @ \ {cfg_ESCAPE},
                            !.ctl = "char"]
        ELSE CASE ch = "[" ->
                    IF cfg_KEY \in p.flag THEN cfgErr(p, p.last)
                    ELSE IF l > 2 /\ ContainsAny(txt, {"[", " ", "&", "]"})
                         THEN LET section == ToLower(SubSeq(txt, 2, l - 2))
                              IN  [p EXCEPT !.last = p.line,
                                            !.section = section,
                                            !.flag = @ \cup {cfg_HEADER},
                                            !.store = MapPut(@, section, EmptyMap),
                                            !.ctl = "line"]
                         ELSE cfgErr([p EXCEPT !.last = p.line], p.line)
               [] ch = "#" -> [p EXCEPT !.ctl = "line"]
               [] ch = "=" ->
                    IF cfg_KEY \in p.flag THEN cfgErr(p, p.line)
                    ELSE [setKey(p) EXCEPT !.flag = @ \cup {cfg_KEY},
                                           !.last = p.line, !.ctl = "char"]
               [] ch = "," ->
                    IF cfg_KEY \notin p.flag THEN cfgErr(p, p.line)
                    ELSE [addVal(p) EXCEPT !.last = p.line,
                                           !.flag = @ \cup {cfg_COMMA},
                                           !.ctl = "char"]
               [] ch = NL ->
                    IF cfg_KEY \notin p.flag THEN cfgErr(p, p.line)
                    ELSE IF cfg_COMMA \in p.flag
                    THEN [p EXCEPT !.flag = @ \ {cfg_COMMA}, !.ctl = "char"]
                    ELSE LET q == addVal([p EXCEPT !.flag = @ \ {cfg_HEADER, cfg_KEY}])
                         IN  IF ~HasKey(q.store, q.section)
                             THEN [q EXCEPT !.ctl = "ret", !.err = "panic",
                                            !.errline = q.line]
                             ELSE [q EXCEPT
                                     !.store = MapPut(@, q.section,
                                                 MapPut(q.store[q.section], q.key, q.val)),
                                     !.val = <<>>, !.last = q.line, !.ctl = "line"]
               [] ch = BSL ->
                    LoadDefault([p EXCEPT !.flag = @ \cup {cfg_ESCAPE}], ch, i, l)
               [] OTHER -> LoadDefault(p, ch, i, l)

\* the characters of one line, from the i-th
RECURSIVE LoadChars(_, _, _)
LoadChars(p, txt, i) ==
    IF i > Len(txt) THEN [p EXCEPT !.ctl = "line"]
    ELSE LET q == LoadChar(p, txt, i)
         IN  IF q.ctl = "char" THEN LoadChars(q, txt, i + 1) ELSE q

\* scanLoop over the lines from the n-th
RECURSIVE LoadLines(_, _, _)
LoadLines(p, lines, n) ==
    IF n > Len(lines) THEN p
    ELSE LET p1 == [p EXCEPT !.line = @ + 1]
             txt == Append(lines[n], NL)
         IN  IF Len(txt) < 2 THEN LoadLines(p1, lines, n + 1)
             ELSE LET q == LoadChars(p1, txt, 1)
                  IN  IF q.ctl = "ret" THEN q ELSE LoadLines(q, lines, n + 1)

\* Load of a file with these lines: [store, err, errline, ...]
Load(lines) ==
    LET p == LoadLines(LoadStart, lines, 1)
    IN  IF p.ctl = "ret" THEN p
        ELSE IF cfg_KEY \in p.flag THEN cfgErr(p, p.last)
        ELSE [p EXCEPT !.ctl = "ret"]

----------------------------------------------------------------------------
(* ReadFile: the section extractor.  The scanner state is Load's, with the *)
(* section asked for in section and the result map out in store.           *)

ReadFileStart(section) == [LoadStart EXCEPT !.section = ToLower(section)]

\* one character of a line of the section, once its header has been found
ReadFileChar(p, txt, i) ==
    LET ch == txt[i]
        l == Len(txt)
    IN  IF cfg_ESCAPE \in p.flag
        THEN IF i = l /\ Len(p.buf) # 0
             THEN cfgErr(p, p.line)
             ELSE [p EXCEPT !.buf = Append(@, ch), !.flag = @ \ {cfg_ESCAPE},
                            !.ctl = "char"]
        ELSE CASE ch = "=" ->
                    IF cfg_KEY \in p.flag THEN cfgErr(p, p.line)
                    ELSE [setKey(p) EXCEPT !.flag = @ \cup {cfg_KEY},
                                           !.last = p.line, !.ctl = "char"]
               [] ch = "," ->
                    IF cfg_KEY \notin p.flag THEN cfgErr(p, p.line)
                    ELSE [addVal(p) EXCEPT !.last = p.line,
                                           !.flag = @ \cup {cfg_COMMA},
                                           !.ctl = "char"]
               [] ch = NL ->
                    IF cfg_KEY \notin p.flag THEN cfgErr(p, p.line)
                    ELSE IF cfg_COMMA \in p.flag
                    THEN [p EXCEPT !.flag = @ \ {cfg_COMMA}, !.ctl = "char"]
                    ELSE LET q == addVal([p EXCEPT !.flag = @ \ {cfg_KEY}])
                         IN  [q EXCEPT !.store = MapPut(@, q.key, q.val),
                                       !.val = <<>>, !.last = q.line,
                                       !.ctl = "char"]
               [] ch = "[" ->
                    IF cfg_KEY \in p.flag THEN cfgErr(p, p.last)
                    ELSE [p EXCEPT !.ctl = "ret"]
               [] ch = BSL ->
                    LoadDefault([p EXCEPT !.flag = @ \cup {cfg_ESCAPE}], ch, i, l)
               [] OTHER -> LoadDefault(p, ch, i, l)

\* the characters of one line of the section, from the i-th
RECURSIVE ReadFileChars(_, _, _)
ReadFileChars(p, txt, i) ==
    IF i > Len(txt) THEN [p EXCEPT !.ctl = "line"]
    ELSE LET q == ReadFileChar(p, txt, i)
         IN  IF q.ctl = "char" THEN ReadFileChars(q, txt, i + 1) ELSE q

\* one line: skipped, tested for the header of the section, or scanned
ReadFileLine(p, txt) ==
    LET l == Len(txt)
    IN  IF (l > 1 /\ txt[1] = "#") \/ l = 1 THEN p
        ELSE IF cfg_HEADER \notin p.flag
        THEN IF ~ContainsAny(txt, {"[", " ", "&", "]"}) THEN p
             ELSE IF HasPrefix(ToLower(txt), <<"[">> \o p.section \o <<"]">>)
                  THEN [p EXCEPT !.flag = @ \cup {cfg_HEADER}]
                  ELSE p
        ELSE ReadFileChars(p, txt, 1)

\* the loop over the lines from the n-th
RECURSIVE ReadFileLines(_, _, _)
ReadFileLines(p, lines, n) ==
    IF n > Len(lines) THEN p
    ELSE LET q == ReadFileLine([p EXCEPT !.line = @ + 1], Append(lines[n], NL))
         IN  IF q.ctl = "ret" THEN q ELSE ReadFileLines(q, lines, n + 1)

\* ReadFile of a file with these lines: [store (the map out), err, errline, ...]
ReadFile(lines, section) ==
    [ReadFileLines(ReadFileStart(section), lines, 1) EXCEPT !.ctl = "ret"]

----------------------------------------------------------------------------
(* SetFile: the writer.  Its computation on the lines of the file.         *)

ReservedChars == {"[", "]", ","}

\* HasReserved with a fault: the check without its case ','
HasReserved_NoComma(value) ==
    \E i \in 1..Len(value) : ContainsAny(value[i], {"[", "]"})

\* the check of the values that opens SetFile
HasReserved(value) ==
    \E i \in 1..Len(value) : ContainsAny(value[i], ReservedChars)

\* no_end_comma: every character but ',' (blanks included) sets it again
RECURSIVE no_end_comma_from(_, _, _)
no_end_comma_from(input, i, no_comma) ==
    IF i > Len(input) THEN no_comma
    ELSE no_end_comma_from(input, i + 1, input[i] # ",")

no_end_comma(input) == no_end_comma_from(input, 1, TRUE)

\* the key test of cfgSeek on a lower-cased line b
cfgSeekKeyHit(b, key) ==
    /\ HasPrefix(b, key)
    /\ TrimSpace(SplitFirst(b, "=")) = key

\* cfgSeek's loop, line lines scanned so far
RECURSIVE cfgSeekLines(_, _, _, _, _, _)
cfgSeekLines(section, key, lines, line, upper, flag) ==
    IF line >= Len(lines)
    THEN [upper |-> line, lower |-> -1, flag |-> flag]
    ELSE LET n == line + 1
             b == ToLower(lines[n])
             l == Len(b)
         IN  IF (l > 0 /\ b[1] = "#") \/ l = 0
             THEN cfgSeekLines(section, key, lines, n, upper, flag)
             ELSE IF cfg_HEADER \notin flag
             THEN IF HasPrefix(b, <<"[">> \o section \o <<"]">>)
                  THEN cfgSeekLines(section, key, lines, n, n, flag \cup {cfg_HEADER})
                  ELSE cfgSeekLines(section, key, lines, n, upper, flag)
             ELSE IF b[1] = "["
             THEN [upper |-> upper, lower |-> upper + 1, flag |-> flag]
             ELSE LET hit == cfg_KEY \notin flag /\ cfgSeekKeyHit(b, key)
                      upper1 == IF hit THEN n - 1 ELSE upper
                      flag1 == IF hit THEN flag \cup {cfg_KEY} ELSE flag
                  IN  IF cfg_KEY \in flag1 /\ no_end_comma(b)
                      THEN [upper |-> upper1, lower |-> n + 1, flag |-> flag1]
                      ELSE cfgSeekLines(section, key, lines, n, upper1, flag1)

\* cfgSeek: [upper, lower, flag], lower = -1 when the scan reaches the end
cfgSeek(section, key, lines) == cfgSeekLines(section, key, lines, 0, 0, {})

\* copyFile: the lines of src after the first start, up to line end (-1: all)
copyFile(src, start, end) ==
    SubSeq(src, start + 1, IF end = -1 \/ end > Len(src) THEN Len(src) ELSE end)

\* the values the loop over value reaches: it breaks at the first ""
RECURSIVE ValuesToWrite(_)
ValuesToWrite(value) ==
    IF value = <<>> \/ Head(value) = <<>> THEN <<>>
    ELSE <<Head(value)>> \o ValuesToWrite(Tail(value))

Spacer(n) == [i \in 1..n |-> " "]

\* txt: the header when the section is new, then one line per value
BuildTxt(section, key, value, flag) ==
    LET vs == ValuesToWrite(value)
        kv == [i \in 1..Len(vs) |->
                 IF i = 1 THEN key \o <<" ", "=", " ">> \o vs[i]
                 ELSE Spacer(Len(key) + 3) \o vs[i]]
    IN  (IF cfg_HEADER \notin flag THEN <<<<"[">> \o section \o <<"]">>>> ELSE <<>>)
        \o kv

\* the lines the injection loop writes to the temporary file
RECURSIVE WriteTxt(_, _, _)
WriteTxt(txt, i, flag) ==
    IF i > Len(txt) THEN <<>>
    ELSE (IF i = 1 /\ cfg_HEADER \notin flag THEN << <<>>, txt[i] >>
          ELSE IF i < Len(txt) THEN << Append(txt[i], ",") >>
          ELSE << txt[i] >>)
         \o WriteTxt(txt, i + 1, flag)

\* the content SetFile stages in the temporary file: head, injection, tail
Staged(lines, section, key, value) ==
    LET seek == cfgSeek(section, key, lines)
        txt == BuildTxt(section, key, value, seek.flag)
    IN  copyFile(lines, 0, seek.upper)
        \o WriteTxt(txt, 1, seek.flag)
        \o (IF seek.lower # -1 THEN copyFile(lines, seek.lower - 1, -1) ELSE <<>>)

----------------------------------------------------------------------------
(* The Store's accessors, on the mapping m. *)

\* GetResult with a fault: the escape characters are not removed
GetResult_NoStrip(m, section, key) ==
    LET sec == ToLower(section)
        k == ToLower(key)
    IN  IF ~(HasKey(m, sec) /\ HasKey(m[sec], k)) THEN << <<>> >>
        ELSE IF Len(m[sec][k]) = 0 THEN << <<>> >>
        ELSE m[sec][k]

\* GetResult with a fault: no strings.ToLower on the arguments
GetResult_NoFold(m, section, key) ==
    IF ~(HasKey(m, section) /\ HasKey(m[section], key)) THEN << <<>> >>
    ELSE IF Len(m[section][key]) = 0 THEN << <<>> >>
    ELSE [i \in 1..Len(m[section][key]) |-> StripEscapes(m[section][key][i])]

\* Get's result
GetResult(m, section, key) ==
    LET sec == ToLower(section)
        k == ToLower(key)
    IN  IF ~(HasKey(m, sec) /\ HasKey(m[sec], k)) THEN << <<>> >>
        ELSE IF Len(m[sec][k]) = 0 THEN << <<>> >>
        ELSE [i \in 1..Len(m[sec][k]) |-> StripEscapes(m[sec][k][i])]

\* the mapping after Get: the loop writes each stripped value back into the
\* stored list (result shares its array)
GetStore(m, section, key) ==
    LET sec == ToLower(section)
        k == ToLower(key)
    IN  IF HasKey(m, sec) /\ HasKey(m[sec], k) /\ Len(m[sec][k]) # 0
        THEN MapPut(m, sec, MapPut(m[sec], k, GetResult(m, section, key)))
        ELSE m

\* Exists' result: found is the named result
ExistsResult(m, input) ==
    LET inlen == Len(input)
    IN  IF inlen = 0 THEN FALSE
        ELSE LET found == HasKey(m, input[1])
             IN  IF found THEN found
                 ELSE IF inlen > 1 /\ found = TRUE
                      THEN HasKey(m[input[1]], input[2])
                      ELSE found

\* the keys ListKeys appends, in the order the map iteration takes (any)
ListKeysResults(m, section) ==
    IF ~HasKey(m, section) THEN {<<>>}
    ELSE LET ks == DOMAIN m[section]
         IN  {o \in [1..Cardinality(ks) -> ks] : \A k \in ks : \E i \in DOMAIN o : o[i] = k}

ListSectionsResults(m) ==
    LET ss == DOMAIN m
    IN  {o \in [1..Cardinality(ss) -> ss] : \A s \in ss : \E i \in DOMAIN o : o[i] = s}

\* the mapping after a successful Set
SetStore(m, section, key, value) ==
    MapPut(m, section, MapPut(IF HasKey(m, section) THEN m[section] ELSE EmptyMap,
                              key, value))

----------------------------------------------------------------------------
(* The inputs of the model: the names, the value lists and the files.      *)

\* the section and key names Set is called with, and those of the accessors
SetSections == { <<"s">>, <<"T">> }
SetKeys == { <<"K">>, <<"j">> }
Sections == { <<"s">>, <<"S">>, <<"t">> }
Keys == { <<"k">>, <<"K">> }

\* the value lists Set is called with: none, two values, one with a
\* backslash, one with a reserved character
SetValues ==
    { <<>>,
      << <<"a">>, <<"b">> >>,
      << <<"a", BSL, "b">> >>,
      << <<"b">>, <<"a", ",", "b">> >> }

\* the files a Store is made from: Create leaves an empty file, or one "# "
\* line per comment; Load reads any file it parses without error
CreateFiles == { <<>>, << <<"#", " ", "c">> >> }

LoadCandidates ==
    { \* # c / [s] / k = a, / b (continued) / (blank) / [T] / J = b (indented)
      << <<"#", " ", "c">>, <<"[", "s", "]">>,
         <<"k", " ", "=", " ", "a", ",">>, <<" ", " ", " ", " ", "b">>, <<>>,
         <<"[", "T", "]">>, <<" ", "J", " ", "=", " ", "b">> >>,
      \* [s] / k = a\, / j = b : the comma that ends k's line is escaped
      << <<"[", "s", "]">>, <<"k", " ", "=", " ", "a", BSL, ",">>,
         <<"j", " ", "=", " ", "b">> >>,
      \* k = a : a key before any section
      << <<"k", " ", "=", " ", "a">> >> }

LoadFiles == {f \in LoadCandidates : Load(f).err = "nil"}

----------------------------------------------------------------------------
(* The state machine: a Store and its file, one call at a time.            *)

Ret(op, args, vals, out, err) ==
    [op |-> op, args |-> args, vals |-> vals, out |-> out, err |-> err]

\* a Set call: its arguments as given, section and key lower-cased, and the
\* file and the mapping as they were when it was made
Call(args, value, old, store) ==
    [args |-> args, section |-> ToLower(args[1]), key |-> ToLower(args[2]),
     value |-> value, old |-> old, store |-> store]

NoCall == Call(<< <<>>, <<>> >>, <<>>, <<>>, EmptyMap)

NoObs == [read |-> FALSE, lines |-> <<>>]

\* the goroutines that call the Store at the same time
Procs == {1, 2}

\* sync.RWMutex: w is the goroutine that has called Lock and got past the other
\* writers (0: none; from then on RLock blocks), readers those that hold RLock
NoLock == [w |-> 0, readers |-> {}]

\* a goroutine with no call under way
IdleProc ==
    [pc |-> "idle", op |-> "none", args |-> <<>>, value |-> <<>>,
     staged |-> <<>>, out |-> <<>>, err |-> "nil"]

\* no goroutine calls the Store
NoProcs == [p \in Procs |-> IdleProc]

\* the parts of the state only a Set call in progress changes
Idle ==
    /\ pc = "idle"
    /\ UNCHANGED <<pc, call, tmpfile, handles, obs, mutex, procs>>

\* Create(file, comment...) or Load(file) has returned the Store
Init ==
    /\ \/ /\ file \in CreateFiles
          /\ cfgStore = EmptyMap
          /\ ret = Ret("Create", <<>>, <<>>, <<>>, "nil")
       \/ /\ file \in LoadFiles
          /\ cfgStore = Load(file).store
          /\ ret = Ret("Load", <<>>, <<>>, <<>>, "nil")
    /\ pc = "idle"
    /\ call = NoCall
    /\ tmpfile = <<>>
    /\ handles = {}
    /\ obs = NoObs
    /\ nset = 0
    /\ mutex = NoLock
    /\ procs = NoProcs

\* Store.Set, every file operation of SetFile succeeding
Set(section, key, value) ==
    /\ Idle
    /\ nset < MaxSets
    /\ nset' = nset + 1
    /\ LET sec == ToLower(section)
           k == ToLower(key)
       IN  IF HasReserved(value)
           THEN /\ ret' = Ret("Set", <<section, key>>, value, <<>>, "invalid")
                /\ UNCHANGED <<file, cfgStore>>
           ELSE /\ file' = Staged(file, sec, k, value)
                /\ cfgStore' = SetStore(cfgStore, sec, k, value)
                /\ ret' = Ret("Set", <<section, key>>, value, <<>>, "nil")

\* Store.Get
Get(section, key) ==
    /\ Idle
    /\ ret' = Ret("Get", <<section, key>>, <<>>, GetResult(cfgStore, section, key), "nil")
    /\ cfgStore' = GetStore(cfgStore, section, key)
    /\ UNCHANGED <<file, nset>>

\* Store.Exists
Exists(input) ==
    /\ Idle
    /\ ret' = Ret("Exists", input, <<>>, ExistsResult(cfgStore, input), "nil")
    /\ UNCHANGED <<file, cfgStore, nset>>

\* Store.ListKeys
ListKeys(section) ==
    /\ Idle
    /\ \E out \in ListKeysResults(cfgStore, section) :
          ret' = Ret("ListKeys", <<section>>, <<>>, out, "nil")
    /\ UNCHANGED <<file, cfgStore, nset>>

\* Store.ListSections
ListSections ==
    /\ Idle
    /\ \E out \in ListSectionsResults(cfgStore) :
          ret' = Ret("ListSections", <<>>, <<>>, out, "nil")
    /\ UNCHANGED <<file, cfgStore, nset>>

\* the argument lists of Exists: none, a section, a section and a key
ExistsInputs ==
    {<<>>} \cup {<<s>> : s \in Sections} \cup {<<s, k>> : s \in Sections, k \in Keys}

SetNext == \E s \in SetSections, k \in SetKeys, v \in SetValues : Set(s, k, v)

GetNext == \E s \in Sections, k \in Keys : Get(s, k)

ExistsNext == \E input \in ExistsInputs : Exists(input)

ListKeysNext == \E s \in Sections : ListKeys(s)

Next ==
    \/ SetNext
    \/ GetNext
    \/ ExistsNext
    \/ ListKeysNext
    \/ ListSections

Spec == Init /\ [][Next]_vars

\* a Store on which only Set is called
SpecSet == Init /\ [][SetNext]_vars

----------------------------------------------------------------------------
(* Store.Set step by step: SetFile's file operations, each of which may    *)
(* fail, and a reader of the file (Load and ReadFile take no lock on it).  *)

\* the first n lines of a file
Prefix(lines, n) == SubSeq(lines, 1, n)

\* SetFile returns err: Set returns it and leaves the mapping alone
SetFails(err) ==
    /\ pc' = "idle"
    /\ ret' = Ret("Set", call.args, call.value, <<>>, err)
    /\ UNCHANGED <<cfgStore, call, nset>>

\* Set is called: the lock, the lower-casing, the copy of the values and
\* SetFile's check of the values
SetBegin(section, key, value) ==
    /\ UNCHANGED <<mutex, procs>>
    /\ pc = "idle"
    /\ nset < MaxIOSets
    /\ nset' = nset + 1
    /\ call' = Call(<<section, key>>, value, file, cfgStore)
    /\ handles' = {}
    /\ obs' = NoObs
    /\ IF HasReserved(value)
       THEN /\ pc' = "idle"
            /\ ret' = Ret("Set", <<section, key>>, value, <<>>, "invalid")
       ELSE /\ pc' = "open"
            /\ ret' = ret
    /\ UNCHANGED <<file, cfgStore, tmpfile>>

\* os.Open(file)
SetOpen ==
    /\ UNCHANGED <<mutex, procs>>
    /\ pc = "open"
    /\ \/ /\ pc' = "temp"
          /\ handles' = handles \cup {"f"}
          /\ UNCHANGED <<ret, cfgStore, call, nset>>
       \/ /\ SetFails("io")
          /\ UNCHANGED handles
    /\ UNCHANGED <<file, tmpfile, obs>>

\* ioutil.TempFile
SetTemp ==
    /\ UNCHANGED <<mutex, procs>>
    /\ pc = "temp"
    /\ \/ /\ pc' = "stage"
          /\ handles' = handles \cup {"tmp"}
          /\ tmpfile' = <<>>
          /\ UNCHANGED <<ret, cfgStore, call, nset>>
       \/ /\ SetFails("io")
          /\ UNCHANGED <<handles, tmpfile>>
    /\ UNCHANGED <<file, obs>>

\* cfgSeek, then the head, the injected lines and the tail written to the
\* temporary file; a write that fails leaves the lines written before it
SetStage ==
    /\ UNCHANGED <<mutex, procs>>
    /\ pc = "stage"
    /\ LET staged == Staged(file, call.section, call.key, call.value)
       IN  \/ /\ pc' = "sync"
              /\ tmpfile' = staged
              /\ UNCHANGED <<ret, cfgStore, call, nset>>
           \/ /\ \E n \in 0..(Len(staged) - 1) : tmpfile' = Prefix(staged, n)
              /\ SetFails("io")
    /\ UNCHANGED <<file, handles, obs>>

\* tmp.Sync, tmp.Close, os.Open(tmpfname), f.Close
SetSync ==
    /\ UNCHANGED <<mutex, procs>>
    /\ pc = "sync"
    /\ \/ /\ pc' = "trunc"
          /\ UNCHANGED <<ret, cfgStore, call, nset>>
       \/ SetFails("io")
    /\ UNCHANGED <<file, tmpfile, handles, obs>>

\* os.OpenFile(file, O_RDWR|O_TRUNC): the file is emptied
SetTrunc ==
    /\ UNCHANGED <<mutex, procs>>
    /\ pc = "trunc"
    /\ \/ /\ pc' = "copy"
          /\ file' = <<>>
          /\ handles' = handles \cup {"destfile"}
          /\ UNCHANGED <<ret, cfgStore, call, nset>>
       \/ /\ SetFails("io")
          /\ UNCHANGED <<file, handles>>
    /\ UNCHANGED <<tmpfile, obs>>

\* io.Copy(destfile, tmp); a copy that fails leaves the lines written before
SetCopy ==
    /\ UNCHANGED <<mutex, procs>>
    /\ pc = "copy"
    /\ \/ /\ pc' = "finish"
          /\ file' = tmpfile
          /\ UNCHANGED <<ret, cfgStore, call, nset>>
       \/ /\ \E n \in 0..(Len(tmpfile) - 1) : file' = Prefix(tmpfile, n)
          /\ SetFails("io")
    /\ UNCHANGED <<tmpfile, handles, obs>>

\* destfile.Sync, tmp.Close, os.Remove(tmpfname); then SetFile returns nil
\* and Set stores the values in the mapping
SetFinish ==
    /\ UNCHANGED <<mutex, procs>>
    /\ pc = "finish"
    /\ \/ /\ pc' = "idle"
          /\ tmpfile' = <<>>
          /\ cfgStore' = SetStore(cfgStore, call.section, call.key, call.value)
          /\ ret' = Ret("Set", call.args, call.value, <<>>, "nil")
          /\ UNCHANGED <<call, nset>>
       \/ /\ SetFails("io")
          /\ UNCHANGED tmpfile
    /\ UNCHANGED <<file, handles, obs>>

\* a reader (Load, ReadFile) reads the file while the Set call is under way
ConcurrentLoad ==
    /\ UNCHANGED <<mutex, procs>>
    /\ pc # "idle"
    /\ obs' = [read |-> TRUE, lines |-> file]
    /\ UNCHANGED <<file, cfgStore, ret, pc, call, tmpfile, handles, nset>>

SetBeginNext ==
    \E s \in SetSections, k \in SetKeys, v \in SetValues : SetBegin(s, k, v)

NextIO ==
    \/ SetBeginNext
    \/ SetOpen
    \/ SetTemp
    \/ SetStage
    \/ SetSync
    \/ SetTrunc
    \/ SetCopy
    \/ SetFinish
    \/ ConcurrentLoad

SpecIO == Init /\ [][NextIO]_vars

----------------------------------------------------------------------------
(* Load and ReadFile called on a file: the files are the inputs.           *)

\* lines of a file body in one run of lines
MaxLines == 3

\* values of the key written over several lines
MaxVals == 3

\* the lines files are made of: headers, key lines, a value line, comment
\* lines, an unclosed header, a second '=', a '#' after a value, a blank line
ParseLines ==
    { <<"[", "s", "]">>,
      <<"[", "T", "]">>,
      <<"k", " ", "=", " ", "a", ",">>,
      <<" ", "b">>,
      <<"#", " ", "c">>,
      <<" ", "#", "c">>,
      <<"j", " ", "=", " ", "a", BSL, ",", "b">>,
      <<"[", "s">>,
      <<"k", " ", "=", "=", " ", "a">>,
      <<"j", " ", "=", " ", "a", " ", "#">>,
      <<>> }

\* a file starts with the header [s] or without a header
Headings == { <<>>, << <<"[", "s", "]">> >> }

ParseFiles ==
    {pre \o body : pre \in Headings,
                   body \in UNION {[1..n -> ParseLines] : n \in 0..MaxLines}}

\* the i-th value of the key written over several lines
ContValue(i) == <<LowerCase[i]>>

\* the white space that starts a continuation line
Indents == { <<>>, <<" ">>, <<"\t", " ">> }

\* what follows the last line of the key: nothing, a key, a section
Followers ==
    { <<>>, << <<"j", " ", "=", " ", "b">> >>, << <<"[", "T", "]">> >> }

\* [s], then "k = v1," and the lines "v2," ... "vn", each after white space,
\* every line but the last ending in a comma, then what follows
ContFile(n, indent, follower) ==
    << <<"[", "s", "]">> >>
    \o [i \in 1..n |->
          (IF i = 1 THEN <<"k", " ", "=", " ">> ELSE indent[i])
          \o ContValue(i)
          \o (IF i < n THEN <<",">> ELSE <<>>)]
    \o follower

\* no call has returned yet
NoRet == Ret("none", <<>>, <<>>, <<>>, "nil")

\* what a scanner returns: the mapping, the error and its line number
Parsed(p) == [store |-> p.store, errline |-> p.errline]

\* a file to read; call holds the key and the values a file of the second
\* kind was written with
InitLoad ==
    /\ \/ /\ file \in ParseFiles
          /\ call = NoCall
       \/ \E n \in 1..MaxVals : \E indent \in [1..n -> Indents] :
          \E follower \in Followers :
             /\ file = ContFile(n, indent, follower)
             /\ call = Call(<< <<"s">>, <<"k">> >>, [i \in 1..n |-> ContValue(i)],
                            follower, EmptyMap)
    /\ cfgStore = EmptyMap
    /\ ret = NoRet
    /\ pc = "idle"
    /\ tmpfile = <<>>
    /\ handles = {}
    /\ obs = NoObs
    /\ nset = 0
    /\ mutex = NoLock
    /\ procs = NoProcs

\* Load(file): it returns the Store and the error, or panics
LoadCall ==
    /\ Idle
    /\ LET p == Load(file)
       IN  ret' = Ret("Load", <<>>, <<>>, Parsed(p), p.err)
    /\ UNCHANGED <<file, cfgStore, nset>>

\* ReadFile(file, section)
ReadFileCall(section) ==
    /\ Idle
    /\ LET p == ReadFile(file, section)
       IN  ret' = Ret("ReadFile", <<section>>, <<>>, Parsed(p), p.err)
    /\ UNCHANGED <<file, cfgStore, nset>>

\* the section names ReadFile is called with
ReadSections == { <<"s">>, <<"T">> }

ReadFileNext == \E s \in ReadSections : ReadFileCall(s)

NextLoad ==
    \/ LoadCall
    \/ ReadFileNext

SpecLoad == InitLoad /\ [][NextLoad]_vars

----------------------------------------------------------------------------
(* Goroutines calling one Store at once: every method takes Store.mutex,   *)
(* Set with Lock over the whole of SetFile and the update of the mapping,  *)
(* the accessors with RLock.                                               *)

\* Set calls made in one behaviour of SpecConc and SpecConcSet
MaxConcSets == 2

\* the arguments of the calls made at once
ConcSections == { <<"s">> }
ConcKeys == { <<"K">>, <<"j">> }
ConcValues ==
    { <<>>,
      << <<"a", BSL, "b">> >>,
      << <<"a">>, <<"b">> >>,
      << <<"a", ",", "b">> >> }
ConcGetArgs == { << <<"S">>, <<"k">> >> }

\* the parts of the state that belong to the Set call taken step by step
\* with its file operations
NoStepwise == UNCHANGED <<pc, call, tmpfile, handles, obs>>

\* goroutine p takes its next step with the changes ch to its record
Step(p, ch) == procs' = [procs EXCEPT ![p] = ch]

\* Lock: no other writer is past this point
LockOpen(m) == m.w = 0

\* WritersTurn with a fault: the writer does not wait for the readers
WritersTurn_NoWait(m) == TRUE

\* Lock: the readers inside have left
WritersTurn(m) == m.readers = {}

\* RLock: no writer has called Lock and got past the other writers
ReadersTurn(m) == m.w = 0

\* Store.Set is called
SetCall(p, section, key, value) ==
    /\ procs[p].pc = "idle"
    /\ nset < MaxConcSets
    /\ nset' = nset + 1
    /\ Step(p, [IdleProc EXCEPT !.pc = "lock", !.op = "Set",
                                !.args = <<section, key>>, !.value = value])
    /\ NoStepwise
    /\ UNCHANGED <<file, cfgStore, ret, mutex>>

\* s.mutex.Lock(): past the other writers, new readers are kept out
Lock(p) ==
    /\ procs[p].pc = "lock"
    /\ LockOpen(mutex)
    /\ mutex' = [mutex EXCEPT !.w = p]
    /\ Step(p, [procs[p] EXCEPT !.pc = "lockwait"])
    /\ NoStepwise
    /\ UNCHANGED <<file, cfgStore, ret, nset>>

\* s.mutex.Lock() returns when the readers have left
LockWait(p) ==
    /\ procs[p].pc = "lockwait"
    /\ WritersTurn(mutex)
    /\ Step(p, [procs[p] EXCEPT !.pc = "setfile"])
    /\ NoStepwise
    /\ UNCHANGED <<file, cfgStore, ret, nset, mutex>>

\* SetFile: the check of the values, then the scan of the file and the
\* staging of its new content in the temporary file
SetFileScan(p) ==
    /\ procs[p].pc = "setfile"
    /\ IF HasReserved(procs[p].value)
       THEN Step(p, [procs[p] EXCEPT !.pc = "unlock", !.err = "invalid"])
       ELSE Step(p, [procs[p] EXCEPT
                       !.pc = "replace",
                       !.staged = Staged(file, ToLower(procs[p].args[1]),
                                         ToLower(procs[p].args[2]),
                                         procs[p].value)])
    /\ NoStepwise
    /\ UNCHANGED <<file, cfgStore, ret, nset, mutex>>

\* SetFile: the file is replaced by the staged content
SetFileReplace(p) ==
    /\ procs[p].pc = "replace"
    /\ file' = procs[p].staged
    /\ Step(p, [procs[p] EXCEPT !.pc = "store"])
    /\ NoStepwise
    /\ UNCHANGED <<cfgStore, ret, nset, mutex>>

\* Set stores the values in the mapping
SetStoreValues(p) ==
    /\ procs[p].pc = "store"
    /\ cfgStore' = SetStore(cfgStore, ToLower(procs[p].args[1]),
                            ToLower(procs[p].args[2]), procs[p].value)
    /\ Step(p, [procs[p] EXCEPT !.pc = "unlock"])
    /\ NoStepwise
    /\ UNCHANGED <<file, ret, nset, mutex>>

\* the deferred s.mutex.Unlock(), and Set returns
SetUnlock(p) ==
    /\ procs[p].pc = "unlock"
    /\ mutex' = [mutex EXCEPT !.w = 0]
    /\ ret' = Ret("Set", procs[p].args, procs[p].value, <<>>, procs[p].err)
    /\ Step(p, IdleProc)
    /\ NoStepwise
    /\ UNCHANGED <<file, cfgStore, nset>>

\* Get, Exists, ListKeys or ListSections is called
AccessorCall(p, op, args) ==
    /\ procs[p].pc = "idle"
    /\ Step(p, [IdleProc EXCEPT !.pc = "rlock", !.op = op, !.args = args])
    /\ NoStepwise
    /\ UNCHANGED <<file, cfgStore, ret, nset, mutex>>

\* s.mutex.RLock()
RLock(p) ==
    /\ procs[p].pc = "rlock"
    /\ ReadersTurn(mutex)
    /\ mutex' = [mutex EXCEPT !.readers = @ \cup {p}]
    /\ Step(p, [procs[p] EXCEPT !.pc = "read"])
    /\ NoStepwise
    /\ UNCHANGED <<file, cfgStore, ret, nset>>

\* Get looks the key up: result is the stored list itself
GetLookup(p) ==
    /\ procs[p].pc = "read"
    /\ procs[p].op = "Get"
    /\ LET sec == ToLower(procs[p].args[1])
           k == ToLower(procs[p].args[2])
       IN  IF HasKey(cfgStore, sec) /\ HasKey(cfgStore[sec], k)
              /\ Len(cfgStore[sec][k]) # 0
           THEN Step(p, [procs[p] EXCEPT !.pc = "strip", !.out = cfgStore[sec][k]])
           ELSE Step(p, [procs[p] EXCEPT !.pc = "runlock", !.out = << <<>> >>])
    /\ NoStepwise
    /\ UNCHANGED <<file, cfgStore, ret, nset, mutex>>

\* a string read while another goroutine writes it: the old text cut to the
\* length of the new one
Torn(val) == SubSeq(val, 1, Len(StripEscapes(val)))

\* what Get's loop may leave in the list: each value without its escape
\* characters, or, when another Get is in its loop on the same list, the
\* values it makes of strings read while they are written
StripOutcomes(m, section, key, raced) ==
    {GetResult(m, section, key)}
    \cup (IF raced
          THEN {[i \in 1..Len(m[ToLower(section)][ToLower(key)]) |->
                   StripEscapes(Torn(m[ToLower(section)][ToLower(key)][i]))]}
          ELSE {})

\* Get's loop: every value is replaced, in the stored list, by the value
\* without its escape characters
GetStrip(p) ==
    /\ procs[p].pc = "strip"
    /\ LET sec == ToLower(procs[p].args[1])
           k == ToLower(procs[p].args[2])
           raced == \E q \in Procs \ {p} :
                       /\ procs[q].pc = "strip"
                       /\ ToLower(procs[q].args[1]) = sec
                       /\ ToLower(procs[q].args[2]) = k
       IN  \E out \in StripOutcomes(cfgStore, sec, k, raced) :
              /\ cfgStore' = MapPut(cfgStore, sec, MapPut(cfgStore[sec], k, out))
              /\ Step(p, [procs[p] EXCEPT !.pc = "runlock", !.out = out])
    /\ NoStepwise
    /\ UNCHANGED <<file, ret, nset, mutex>>

\* Exists, ListKeys and ListSections read the mapping
ReadMapping(p) ==
    /\ procs[p].pc = "read"
    /\ procs[p].op # "Get"
    /\ \E out \in CASE procs[p].op = "Exists" ->
                         {ExistsResult(cfgStore, procs[p].args)}
                    [] procs[p].op = "ListKeys" ->
                         ListKeysResults(cfgStore, procs[p].args[1])
                    [] OTHER -> ListSectionsResults(cfgStore) :
          Step(p, [procs[p] EXCEPT !.pc = "runlock", !.out = out])
    /\ NoStepwise
    /\ UNCHANGED <<file, cfgStore, ret, nset, mutex>>

\* the deferred s.mutex.RUnlock(), and the accessor returns
RUnlock(p) ==
    /\ procs[p].pc = "runlock"
    /\ mutex' = [mutex EXCEPT !.readers = @ \ {p}]
    /\ ret' = Ret(procs[p].op, procs[p].args, <<>>, procs[p].out, "nil")
    /\ Step(p, IdleProc)
    /\ NoStepwise
    /\ UNCHANGED <<file, cfgStore, nset>>

SetCallNext(p) ==
    \E s \in ConcSections, k \in ConcKeys, v \in ConcValues : SetCall(p, s, k, v)

GetCall(p) == \E args \in ConcGetArgs : AccessorCall(p, "Get", args)

ExistsCall(p) == AccessorCall(p, "Exists", << <<"s">> >>)

ListKeysCall(p) == AccessorCall(p, "ListKeys", << <<"s">> >>)

ListSectionsCall(p) == AccessorCall(p, "ListSections", <<>>)

\* the steps of a Set call
SetSteps(p) ==
    \/ SetCallNext(p)
    \/ Lock(p)
    \/ LockWait(p)
    \/ SetFileScan(p)
    \/ SetFileReplace(p)
    \/ SetStoreValues(p)
    \/ SetUnlock(p)

NextConcSet == \E p \in Procs : SetSteps(p)

NextConc ==
    \E p \in Procs :
        \/ SetSteps(p)
        \/ GetCall(p)
        \/ ExistsCall(p)
        \/ ListKeysCall(p)
        \/ ListSectionsCall(p)
        \/ RLock(p)
        \/ GetLookup(p)
        \/ GetStrip(p)
        \/ ReadMapping(p)
        \/ RUnlock(p)

SpecConc == Init /\ [][NextConc]_vars

\* goroutines that only call Set
SpecConcSet == Init /\ [][NextConcSet]_vars

----------------------------------------------------------------------------
(* Properties.                                                             *)

\* the last call that returned is a Set that returned nil
SetReturnedNil == ret.op = "Set" /\ ret.err = "nil"

\* this step is a Get that follows at once a Set that returned nil
GetFollowsSet == SetReturnedNil /\ ret'.op = "Get"

\* the names of an argument list folded to lower case
Folded(names) == [i \in 1..Len(names) |-> ToLower(names[i])]

\* each value without its backslash characters
Unescaped(value) == [i \in 1..Len(value) |-> StripEscapes(value[i])]

\* the elements of a list
Range(seq) == {seq[i] : i \in 1..Len(seq)}

\* C1: after Set calls that return nil, Load of the Store's file succeeds and
\* yields exactly the in-memory mapping (sections, keys, ordered value lists).
C1_LoadOfFileIsStore ==
    SetReturnedNil =>
        /\ Load(file).err = "nil"
        /\ Load(file).store = cfgStore

ScanTo(lines, n) == LoadLines(LoadStart, SubSeq(lines, 1, n), 1)

\* line n of a file is read by Load as a line of key k of section s: its
\* "key =" line or one of its continuation lines (not a comment, a blank
\* line or a section header)
IsLineOfKey(lines, n, s, k) ==
    LET p == ScanTo(lines, n)
    IN  /\ p.ctl # "ret"
        /\ p.last = n
        /\ p.section = s
        /\ p.key = k
        /\ \/ cfg_KEY \in p.flag
           \/ HasKey(p.store, s) /\ HasKey(p.store[s], k)

\* the lines of a file that are not lines of key k of section s, in order
RECURSIVE OtherLinesFrom(_, _, _, _)
OtherLinesFrom(lines, n, s, k) ==
    IF n > Len(lines) THEN <<>>
    ELSE (IF IsLineOfKey(lines, n, s, k) THEN <<>> ELSE <<lines[n]>>)
         \o OtherLinesFrom(lines, n + 1, s, k)

OtherLines(lines, s, k) == OtherLinesFrom(lines, 1, s, k)

\* a is b with some lines left out
RECURSIVE IsSubseq(_, _)
IsSubseq(a, b) ==
    IF a = <<>> THEN TRUE
    ELSE IF b = <<>> THEN FALSE
    ELSE IF Head(a) = Head(b) THEN IsSubseq(Tail(a), Tail(b))
    ELSE IsSubseq(a, Tail(b))

\* C3: on a file Load accepts, a Set that returns nil changes only the lines
\* of key k of section s (or only adds lines): every other line of the file
\* is still there afterwards, unchanged and in the same relative order.
C3_SetKeepsOtherLines ==
    [][(ret'.op = "Set" /\ ret'.err = "nil" /\ Load(file).err = "nil")
         => IsSubseq(OtherLines(file, ToLower(ret'.args[1]), ToLower(ret'.args[2])),
                     file')]_vars

\* the last Set call has returned the error of a file operation
SetReturnedIoError == pc = "idle" /\ ret.op = "Set" /\ ret.err = "io"

\* C4: when Set returns the error of a file operation that failed, the
\* mapping has not been updated and the file holds what it held before the
\* call.
C4_IoErrorLeavesFileAndStore ==
    SetReturnedIoError => (cfgStore = call.store /\ file = call.old)

\* C5: whatever a reader reads from the file while a Set call is under way
\* is the complete old content or the complete new content.
C5_ReaderSeesOldOrNew ==
    obs.read =>
        obs.lines \in {call.old,
                       Staged(call.old, call.section, call.key, call.value)}

\* the argument list names a section of m, and a key of it when it has two
\* names
NamesPresent(m, input) ==
    CASE Len(input) = 0 -> FALSE
      [] Len(input) = 1 -> HasKey(m, input[1])
      [] OTHER -> HasKey(m, input[1]) /\ HasKey(m[input[1]], input[2])

\* C6: Exists() is false, Exists(sec) is true exactly when sec is in the
\* store, Exists(sec, key) is true exactly when sec is in the store and key
\* is present in it.
C6_ExistsSectionAndKey ==
    ret.op = "Exists" => ret.out = NamesPresent(cfgStore, ret.args)

\* some value of the list contains '[', ']' or ','
ContainsReservedChar(value) ==
    \E i \in 1..Len(value) : \E j \in 1..Len(value[i]) :
        value[i][j] \in {"[", "]", ","}

\* C7: a Set whose values contain '[', ']' or ',' returns an error before any
\* file is opened or created, and leaves the file and the mapping as they
\* were.
C7_ReservedValueRejected ==
    /\ pc # "idle" => ~ContainsReservedChar(call.value)
    /\ (pc = "idle" /\ ret.op = "Set" /\ ContainsReservedChar(ret.vals)) =>
          /\ ret.err = "invalid"
          /\ handles = {}
          /\ file = call.old
          /\ cfgStore = call.store

\* a Set with a reserved character has returned its error, on a Store that
\* has a file with lines and a mapping with sections
C7_Witness ==
    /\ pc = "idle"
    /\ ret.op = "Set"
    /\ ret.err = "invalid"
    /\ ContainsReservedChar(ret.vals)
    /\ file # <<>>
    /\ cfgStore # EmptyMap

\* every key of the mapping has a non-empty list of values
AllListsNonEmpty(m) ==
    \A s \in DOMAIN m : \A k \in DOMAIN m[s] : m[s][k] # <<>>

\* C8: in every reachable state of a Store (after Create or Load and any
\* sequence of Set calls) every key present in the mapping is mapped to a
\* non-empty list of values.
C8_ValueListsNonEmpty == AllListsNonEmpty(cfgStore)

\* C9: Exists and ListKeys give, for any spelling of the section and key
\* names in upper and lower case, the result they give for the lower-case
\* spelling.
C9_AccessorsFoldCase ==
    /\ ret.op = "Exists" => ret.out = ExistsResult(cfgStore, Folded(ret.args))
    /\ ret.op = "ListKeys" =>
          \E out \in ListKeysResults(cfgStore, ToLower(ret.args[1])) :
              Range(ret.out) = Range(out)

\* C10 as stated: after Set(S, K, vs...) returns nil, Get(S', K') returns vs
\* for every S' and K' that differ from S and K only in letter case.
C10_GetIgnoresCase ==
    [][(GetFollowsSet /\ Folded(ret'.args) = Folded(ret.args))
         => ret'.out = ret.vals]_vars

\* C10 as amended: Get(S', K') returns vs with the backslash characters
\* removed from each value, and [""] when vs is empty, for every S' and K'
\* that differ from S and K only in letter case.
C10_GetIgnoresCaseUnescaped ==
    [][(GetFollowsSet /\ Folded(ret'.args) = Folded(ret.args))
         => ret'.out = IF ret.vals = <<>> THEN << <<>> >>
                       ELSE Unescaped(ret.vals)]_vars

\* Get("S", "k") has returned ["ab"]: the one Set made was called with "s"
\* and "K", or "s" and "j", and only the first is read by this Get
C10_Witness ==
    /\ ret.op = "Get"
    /\ ret.args = << <<"S">>, <<"k">> >>
    /\ ret.out = << <<"a", "b">> >>
    /\ nset = 1

\* the first character of a line that is not white space ("" when none)
FirstChar(line) ==
    LET t == TrimSpace(line)
    IN  IF t = <<>> THEN "" ELSE t[1]

\* a comment line, a section header line, a "key = value" line
IsCommentLine(line) == FirstChar(line) = "#"

IsHeaderLine(line) == FirstChar(line) = "["

IsKeyValueLine(line) ==
    /\ FirstChar(line) \notin {"", "#", "[", "="}
    /\ \E i \in 1..Len(line) : line[i] = "="

\* a "key = value" line comes before any section header
KeyLineBeforeHeader(lines) ==
    \E n \in 1..Len(lines) :
        /\ IsKeyValueLine(lines[n])
        /\ \A m \in 1..(n - 1) : ~IsHeaderLine(lines[m])

\* C11: Load of a file in which a "key = value" line occurs before any
\* section header returns a syntax error.
C11_KeyBeforeSectionIsSyntaxError ==
    (ret.op = "Load" /\ KeyLineBeforeHeader(file)) => ret.err = "syntax"

\* Load's scan of a file comes to line n: no earlier line made it return
ReachesLine(lines, n) == ScanTo(lines, n - 1).ctl # "ret"

\* a key is open when Load's scan comes to line n
KeyOpenAt(lines, n) == cfg_KEY \in ScanTo(lines, n - 1).flag

\* the line holds a ']'
HasClosingBracket(line) == \E i \in 1..Len(line) : line[i] = "]"

\* C12: Load returns a syntax error when its scan comes to a line in which
\* '[' opens a section header and no ']' closes it, and when it comes to a
\* '[' while a key is still open.
C12_BadHeaderIsSyntaxError ==
    ret.op = "Load" =>
        \A n \in 1..Len(file) :
            ( /\ ReachesLine(file, n)
              /\ IsHeaderLine(file[n])
              /\ ~HasClosingBracket(file[n]) \/ KeyOpenAt(file, n) )
            => ret.err = "syntax"

\* the line Load is scanning when it returns its error: the first line its
\* scan does not pass (0 when it passes them all and the error is found at
\* the end of the file)
StopLine(lines) ==
    LET stops == {n \in 1..Len(lines) : ScanTo(lines, n).ctl = "ret"}
    IN  IF stops = {} THEN 0 ELSE CHOOSE n \in stops : \A m \in stops : n <= m

\* the place in a line where the scan returns: the index i of the character
\* (0 when it passes the line) and the flags when it comes to it
RECURSIVE StopInLineFrom(_, _, _)
StopInLineFrom(p, txt, i) ==
    IF i > Len(txt) THEN [i |-> 0, flag |-> p.flag]
    ELSE LET q == LoadChar(p, txt, i)
         IN  CASE q.ctl = "ret" -> [i |-> i, flag |-> p.flag]
               [] q.ctl = "line" -> [i |-> 0, flag |-> q.flag]
               [] OTHER -> StopInLineFrom(q, txt, i + 1)

StopInLine(lines, n) ==
    StopInLineFrom([ScanTo(lines, n - 1) EXCEPT !.line = n], Append(lines[n], NL), 1)

\* the scan returns in line n at a '[' met while a key is open
StopsAtBracketWithKeyOpen(lines, n) ==
    LET stop == StopInLine(lines, n)
    IN  /\ stop.i # 0
        /\ Append(lines[n], NL)[stop.i] = "["
        /\ cfg_KEY \in stop.flag

\* character j of a line follows an odd run of backslashes
Escaped(line, j) ==
    LET runs == {r \in 0..(j - 1) : \A h \in (j - r)..(j - 1) : line[h] = BSL}
    IN  (CHOOSE r \in runs : \A q \in runs : r >= q) % 2 = 1

\* character j of a line is an '=' or a ',' that is not escaped and not in a
\* comment
IsMark(line, j) ==
    /\ line[j] \in {"=", ","}
    /\ ~Escaped(line, j)
    /\ \A h \in 1..(j - 1) : line[h] = "#" => Escaped(line, h)

\* the last line with an '=' or a ',' before character i of line n
LastMarkLine(lines, n, i) ==
    LET marked == {m \in 1..n : \E j \in 1..Len(lines[m]) :
                                   IsMark(lines[m], j) /\ (m < n \/ j < i)}
    IN  IF marked = {} THEN 0 ELSE CHOOSE m \in marked : \A q \in marked : m >= q

\* C13 as stated: every syntax error returned by Load carries the number of
\* the line being scanned when the violation is detected (the last line of
\* the file when it is detected at the end of the file).
C13_ErrorLineIsScannedLine ==
    (ret.op = "Load" /\ ret.err = "syntax") =>
        ret.out.errline = IF StopLine(file) = 0 THEN Len(file) ELSE StopLine(file)

\* C13 as amended: a syntax error returned by Load carries the number of
\* the line being scanned when the violation is detected (so a second '=' on
\* a line whose key is open is reported with that line's number), except
\* that a '[' met while a key is open, and the end of the file reached with a
\* key open, are reported with the number of the line that holds the open
\* key's last '=' or ','.
C13_ErrorLineIsScannedOrKeyLine ==
    (ret.op = "Load" /\ ret.err = "syntax") =>
        ret.out.errline =
            LET n == StopLine(file)
            IN  IF n = 0 THEN LastMarkLine(file, Len(file), Len(file[Len(file)]) + 1)
                ELSE IF StopsAtBracketWithKeyOpen(file, n)
                THEN LastMarkLine(file, n, StopInLine(file, n).i)
                ELSE n

\* Load has returned a syntax error for line 3 of "[s] / k = a, / k == a":
\* the second '=' is on line 3, the key's last ',' on line 2
C13_Witness ==
    /\ ret.op = "Load"
    /\ ret.err = "syntax"
    /\ file = << <<"[", "s", "]">>, <<"k", " ", "=", " ", "a", ",">>,
                 <<"k", " ", "=", "=", " ", "a">> >>
    /\ ret.out.errline = 3

\* the file was written with a key whose values are spread over its lines
\* (call.value: the values, call.old: what follows the key's last line)
IsContFile == call.value # <<>>

\* the mapping of such a file: k has the values in s, and what follows is a
\* key of s or a section of its own
ContStore(value, follower) ==
    LET k == <<"k">> :> value
    IN  CASE follower = <<>> -> <<"s">> :> k
          [] IsHeaderLine(follower[1]) -> (<<"s">> :> k) @@ (<<"t">> :> EmptyMap)
          [] OTHER -> <<"s">> :> (k @@ (<<"j">> :> << <<"b">> >>))

\* C14: for "k = v1," followed by the lines "v2," ... "vn" (every line but
\* the last ending in a comma, after any white space), Load maps k to
\* [v1, ..., vn] in that order, and the line after vn starts a new key or a
\* new section.
C14_ContinuationIsOneList ==
    (ret.op = "Load" /\ IsContFile) =>
        /\ ret.err = "nil"
        /\ ret.out.store = ContStore(call.value, call.old)

\* Load has read a key with three values, the second after no white space
\* and the third after a tab and a blank, followed by a key line
C14_Witness ==
    /\ ret.op = "Load"
    /\ IsContFile
    /\ Len(call.value) = 3
    /\ file[3] = <<"b", ",">>
    /\ file[4] = <<"\t", " ", "j">>
    /\ Len(file) = 5
    /\ IsKeyValueLine(file[5])
    /\ ret.out.store[<<"s">>][<<"k">>] = << <<"a">>, <<"b">>, <<"j">> >>

\* a file without its comment lines
RECURSIVE WithoutComments(_)
WithoutComments(lines) ==
    IF lines = <<>> THEN <<>>
    ELSE (IF IsCommentLine(Head(lines)) THEN <<>> ELSE <<Head(lines)>>)
         \o WithoutComments(Tail(lines))

\* C15: the mapping Load makes of a file is the one it makes of the file
\* without its comment lines (the lines whose first character that is not
\* white space is '#'), wherever they stand, and a section with comment
\* lines only is present with no keys.
C15_CommentLinesIgnored ==
    (ret.op = "Load" /\ ret.err = "nil") =>
        /\ Load(WithoutComments(file)).err = "nil"
        /\ Load(WithoutComments(file)).store = ret.out.store
        /\ (WithoutComments(file) = << <<"[", "s", "]">> >>) =>
              ret.out.store = (<<"s">> :> EmptyMap)

\* C16: for every file that Load parses without error and every section
\* present in its mapping, ReadFile of the file and the section returns
\* without error exactly the keys and values Load holds for the section.
C16_ReadFileIsLoadOfSection ==
    ( /\ ret.op = "ReadFile"
      /\ Load(file).err = "nil"
      /\ HasKey(Load(file).store, ToLower(ret.args[1])) )
    => /\ ret.err = "nil"
       /\ ret.out.store = Load(file).store[ToLower(ret.args[1])]

\* the least number of a set of line numbers
MinOf(ns) == CHOOSE n \in ns : \A m \in ns : n <= m

\* the line of a file that is the header of a section (0 when none)
HeaderLineOf(lines, s) ==
    LET hs == {n \in 1..Len(lines) :
                 ToLower(TrimSpace(lines[n])) = <<"[">> \o s \o <<"]">>}
    IN  IF hs = {} THEN 0 ELSE MinOf(hs)

\* the line where the section that starts at line h ends: the next section
\* header, or the line after the last one
BoundaryAfter(lines, h) ==
    LET hs == {n \in (h + 1)..Len(lines) : IsHeaderLine(lines[n])}
    IN  IF hs = {} THEN Len(lines) + 1 ELSE MinOf(hs)

\* new is old with d lines of key k of section s put in before line b of old
InsertedBefore(old, new, b, s, k) ==
    LET d == Len(new) - Len(old)
    IN  /\ d > 0
        /\ SubSeq(new, 1, b - 1) = SubSeq(old, 1, b - 1)
        /\ SubSeq(new, b + d, Len(new)) = SubSeq(old, b, Len(old))
        /\ \A n \in b..(b + d - 1) : IsLineOfKey(new, n, s, k)

\* this step is a Set that returns nil and adds, with values to write, a key
\* that section s of the file does not have yet
SetAddsKey(s, k) ==
    /\ ret'.op = "Set"
    /\ ret'.err = "nil"
    /\ ToLower(ret'.args[1]) = s
    /\ ToLower(ret'.args[2]) = k
    /\ ret'.vals # <<>>
    /\ Load(file).err = "nil"
    /\ HasKey(Load(file).store, s)
    /\ ~HasKey(Load(file).store[s], k)
    /\ HeaderLineOf(file, s) # 0

\* C18: when Set adds a key that a section of the file does not have yet,
\* the lines of the new key are put in immediately before the next section
\* header, or at the end of the file when the section is the last one.
C18_NewKeyBeforeNextHeader ==
    [][\A s \in {ToLower(x) : x \in SetSections} :
       \A k \in {ToLower(x) : x \in SetKeys} :
          SetAddsKey(s, k) =>
              InsertedBefore(file, file',
                             BoundaryAfter(file, HeaderLineOf(file, s)), s, k)]_vars

\* goroutine p is inside the critical section of Set (it holds the lock for
\* writing), of an accessor (it holds the lock for reading)
InsideSet(p) == procs[p].pc \in {"setfile", "replace", "store", "unlock"}

InsideAccessor(p) == procs[p].pc \in {"read", "strip", "runlock"}

\* C17: while a Set is inside its critical section, where it updates the
\* mapping, no other Get, ListSections, ListKeys, Exists or Set is inside
\* its critical section on the Store; accessors may be inside together.
C17_SetExcludesOthers ==
    \A p \in Procs :
        InsideSet(p) =>
            \A q \in Procs \ {p} : ~InsideSet(q) /\ ~InsideAccessor(q)

\* goroutine 1 is in Set, about to store the values in the mapping, while
\* the Get of goroutine 2 waits in RLock
C17_Witness ==
    /\ procs[1].pc = "store"
    /\ procs[2].pc = "rlock"
    /\ procs[2].op = "Get"

\* the accessors
Accessors == {"Get", "Exists", "ListKeys", "ListSections"}

\* this step is a step of an accessor called by goroutine p
AccessorStep(p) ==
    /\ procs'[p] # procs[p]
    /\ procs[p].op \in Accessors \/ procs'[p].op \in Accessors

\* C19: no step of Get, ListSections, ListKeys or Exists, which hold the
\* lock for reading only, writes the mapping or a stored list of values: the
\* mapping is the same before and after.
C19_AccessorsNeverWrite ==
    [][\A p \in Procs : AccessorStep(p) => cfgStore' = cfgStore]_vars

\* this step is the return of the Set call of goroutine p
SetReturns(p) == procs[p].pc = "unlock" /\ procs'[p].pc = "idle"

\* the mapping m has the key of the Set call r with the values of the call
HasValuesOf(m, r) ==
    LET s == ToLower(r.args[1])
        k == ToLower(r.args[2])
    IN  HasKey(m, s) /\ HasKey(m[s], k) /\ m[s][k] = r.vals

\* C20: when the second of two Set calls made at once for different keys has
\* returned, both having returned nil, both keys are in the file and in the
\* mapping with the values of their calls.
C20_NoLostUpdate ==
    [][\A p \in Procs :
         ( /\ SetReturns(p)
           /\ ret.op = "Set" /\ ret.err = "nil" /\ ret'.err = "nil"
           /\ Folded(ret.args) # Folded(ret'.args) )
         => /\ HasValuesOf(cfgStore', ret) /\ HasValuesOf(cfgStore', ret')
            /\ Load(file').err = "nil"
            /\ HasValuesOf(Load(file').store, ret)
            /\ HasValuesOf(Load(file').store, ret')]_vars

====
